---- MODULE Spec2Model ----
(***************************************************************************)
(* mdbook-nocomment: the comment scrubber remove_comment (src/lib.rs) and  *)
(* the chapter loop NoCommentPreprocessor::run that calls it.              *)
(*                                                                         *)
(* An Event is a record [tag, text]; text is the payload as a sequence of  *)
(* one-character strings, so that starts_with, ends_with and trim_end are  *)
(* computed on characters as the code computes them.  Event variants other *)
(* than Text and Html carry nothing the scrubber reads; SoftBreak stands   *)
(* for them.  The `removal` accumulators only feed log::debug! and are     *)
(* left out.                                                               *)
(***************************************************************************)
EXTENDS Integers, Sequences, FiniteSets, TLC

VARIABLES
    book,           \* run: the chapters' event sequences, in for_each_mut order
    chap,           \* run: index of the chapter being processed
    out,            \* run: the scrubbed event sequence of each finished chapter
    events,         \* remove_comment: its argument
    mp,             \* remove_comment: the MultiPeek [iter, buf, index]
    filtered,       \* remove_comment: the result vector
    current_event,  \* remove_comment: the event a lookahead loop holds
    count,          \* split-token lookahead counter
    cnt,            \* whole-token lookahead counter
    found,          \* lookahead flag
    pc,             \* position in run / remove_comment
    origin,         \* history: input position of each element of filtered
    matched,        \* history: input positions at which a trigger arm was taken
    args,           \* main: the command line [mode, renderer]
    mpc,            \* main: position in main / handle_preprocessing
    ctx,            \* handle_preprocessing: the PreprocessorContext read
    err,            \* handle_preprocessing: the Err a `?` or a panic carries
    exit_code,      \* process exit status, -1 while running
    stdout,         \* what was written to standard output
    stderr          \* what was written to standard error

mainvars == <<args, mpc, ctx, err, exit_code, stdout, stderr>>

vars == <<book, chap, out, events, mp, filtered, current_event, count, cnt,
          found, pc, origin, matched, args, mpc, ctx, err, exit_code, stdout,
          stderr>>

----------------------------------------------------------------------------
(* Bounds *)

MaxLen == 4
MaxChapLen == 2

----------------------------------------------------------------------------
(* Strings *)

COMMENT_START == <<"<", "!", "-", "-">>
COMMENT_END == <<"-", "-", ">">>
SPLIT_LT == <<"<">>
SPLIT_BANG == <<"!", "-", "-">>

Whitespace == {" ", "\n"}

RECURSIVE TrimEnd(_)
TrimEnd(s) ==
    IF s = <<>> THEN s
    ELSE IF s[Len(s)] \in Whitespace THEN TrimEnd(SubSeq(s, 1, Len(s) - 1))
    ELSE s

StartsWith(s, p) == Len(p) <= Len(s) /\ SubSeq(s, 1, Len(p)) = p

EndsWith(s, p) == Len(p) <= Len(s) /\ SubSeq(s, Len(s) - Len(p) + 1, Len(s)) = p

IsCommentEndNoTrim(s) == EndsWith(s, COMMENT_END)

\* x.trim_end().ends_with(COMMENT_END)
IsCommentEnd(s) == EndsWith(TrimEnd(s), COMMENT_END)

----------------------------------------------------------------------------
(* Events *)

Text(s) == [tag |-> "Text", text |-> s]
Html(s) == [tag |-> "Html", text |-> s]
SoftBreak == [tag |-> "SoftBreak", text |-> <<>>]
None == [tag |-> "None", text |-> <<>>]

TextPayloads ==
    { <<"<">>,
      <<"!", "-", "-">>,
      <<"!", "-", "-", " ", "-", "-", ">">>,
      <<"-", "-", ">", " ">>,
      <<"x">> }

HtmlPayloads ==
    { <<"<", "!", "-", "-">>,
      <<"<", "!", "-", "-", " ", "-", "-", " ", "-", "-", ">", "\n">>,
      <<"-", "-", ">">>,
      <<"<", "b", ">">> }

Events == {Text(s) : s \in TextPayloads} \cup {Html(s) : s \in HtmlPayloads}
              \cup {SoftBreak}

SeqsUpTo(S, n) == UNION {[1..k -> S] : k \in 0..n}

----------------------------------------------------------------------------
(* itertools::MultiPeek over the event iterator *)

MultiPeek(evs) == [iter |-> evs, buf |-> <<>>, index |-> 0]

MpNextKeepIndex(m) ==
    IF m.buf # <<>>
    THEN [item |-> Head(m.buf), mp |-> [m EXCEPT !.buf = Tail(m.buf)]]
    ELSE IF m.iter # <<>>
    THEN [item |-> Head(m.iter), mp |-> [m EXCEPT !.iter = Tail(m.iter)]]
    ELSE [item |-> None, mp |-> m]

\* mp.next(): resets the peek cursor, pops the buffer front, else pulls
MpNext(m) ==
    IF m.buf # <<>>
    THEN [item |-> Head(m.buf), mp |-> [m EXCEPT !.buf = Tail(m.buf), !.index = 0]]
    ELSE IF m.iter # <<>>
    THEN [item |-> Head(m.iter), mp |-> [m EXCEPT !.iter = Tail(m.iter), !.index = 0]]
    ELSE [item |-> None, mp |-> [m EXCEPT !.index = 0]]

MpPeekConsuming(m) == MpNext(m)

\* mp.peek(): the event at the peek cursor, advancing the cursor past it
MpPeek(m) ==
    IF m.index < Len(m.buf)
    THEN [item |-> m.buf[m.index + 1], mp |-> [m EXCEPT !.index = @ + 1]]
    ELSE IF m.iter # <<>>
    THEN [item |-> Head(m.iter),
          mp |-> [iter |-> Tail(m.iter), buf |-> Append(m.buf, Head(m.iter)),
                  index |-> m.index + 1]]
    ELSE [item |-> None, mp |-> m]

\* for _ in 0..n { mp.next(); }
RECURSIVE SkipN(_, _)
SkipN(m, n) == IF n <= 0 THEN m ELSE SkipN(MpNext(m).mp, n - 1)

\* the events not yet consumed by mp.next()
Remaining(m) == m.buf \o m.iter

\* input position of the event mp.next() returned last
CurPos(m) == Len(events) - Len(Remaining(m))

----------------------------------------------------------------------------
(* remove_comment *)

PushFront(f, e) == <<e>> \o f

\* filtered.push(current_event)
Push(f, e) == Append(f, e)

IsSplitStartAnyText(e) == e.tag = "Text"

\* Event::Text(ref t1) if t1.as_ref().eq("<")
IsSplitStart(e) == e.tag = "Text" /\ e.text = SPLIT_LT

IsSplitNextAnyText(e) == e.tag = "Text"

\* Some(Event::Text(ref t2)) if t2.starts_with("!--")
IsSplitNext(e) == e.tag = "Text" /\ StartsWith(e.text, SPLIT_BANG)

IsWholeStartAnyHtml(e) == e.tag = "Html"

IsWholeStartExact(e) == e.tag = "Html" /\ e.text = COMMENT_START

\* Event::Html(ref html) if html.starts_with(COMMENT_START)
IsWholeStart(e) == e.tag = "Html" /\ StartsWith(e.text, COMMENT_START)

\* for _ in 0..=count
SplitSkipExclusive(c) == c

SplitSkip(c) == c + 1

\* for _ in 0..cnt
WholeSkip(c) == c

EndedAtNextNotTaken(m) == m

\* "Ended at current event": mp.next() takes the peeked second token
EndedAtNext(m) == MpNext(m).mp

Keep(e, m) ==
    /\ filtered' = Push(filtered, e)
    /\ origin' = Append(origin, CurPos(m))

Drop == UNCHANGED <<filtered, origin>>

RestoreNever(fnd) == Drop

\* after a lookahead loop: if !found { filtered.push(current_event) }
Restore(fnd) == IF fnd THEN Drop ELSE Keep(current_event, mp)

LoopEndContinue ==
    /\ pc = "loop"
    /\ MpNext(mp).item = None
    /\ mp' = MpNext(mp).mp
    /\ UNCHANGED <<book, chap, out, events, filtered, current_event, count,
                   cnt, found, pc, origin, matched>>
    /\ UNCHANGED mainvars

\* match mp.next() { None => break }; filtered.into_iter()
LoopEnd ==
    /\ pc = "loop"
    /\ MpNext(mp).item = None
    /\ mp' = MpNext(mp).mp
    /\ pc' = "ret"
    /\ UNCHANGED <<book, chap, out, events, filtered, current_event, count,
                   cnt, found, origin, matched>>
    /\ UNCHANGED mainvars

\* Event::Text(t1) if t1 == "<"
SplitCase ==
    /\ pc = "loop"
    /\ LET r == MpNext(mp)
           e == r.item
           p == MpPeek(r.mp)
           t2 == p.item
       IN /\ IsSplitStart(e)
          /\ IF IsSplitNext(t2)
             THEN /\ matched' = matched \cup {CurPos(r.mp)}
                  /\ Drop
                  /\ IF IsCommentEnd(t2.text)
                     THEN /\ mp' = EndedAtNext(p.mp)
                          /\ UNCHANGED <<pc, current_event, count, found>>
                     ELSE /\ mp' = p.mp
                          /\ current_event' = e
                          /\ count' = 0
                          /\ found' = FALSE
                          /\ pc' = "split"
             ELSE /\ Keep(e, r.mp)
                  /\ mp' = p.mp
                  /\ UNCHANGED <<pc, current_event, count, found, matched>>
    /\ UNCHANGED <<book, chap, out, events, cnt>>
    /\ UNCHANGED mainvars

\* the loop peeking Text events for COMMENT_END, and the code after it
SplitLookahead ==
    /\ pc = "split"
    /\ LET p == MpPeek(mp)
           nn == p.item
       IN IF nn.tag = "Text"
          THEN IF IsCommentEnd(nn.text)
               THEN /\ count' = count + 1
                    /\ found' = TRUE
                    /\ mp' = SkipN(p.mp, SplitSkip(count + 1))
                    /\ Drop
                    /\ current_event' = None
                    /\ pc' = "loop"
               ELSE /\ count' = count + 1
                    /\ mp' = p.mp
                    /\ Drop
                    /\ UNCHANGED <<found, current_event, pc>>
          ELSE IF nn = None
          THEN /\ Restore(found)
               /\ mp' = p.mp
               /\ current_event' = None
               /\ pc' = "loop"
               /\ UNCHANGED <<count, found>>
          ELSE /\ count' = count + 1
               /\ mp' = p.mp
               /\ Drop
               /\ UNCHANGED <<found, current_event, pc>>
    /\ UNCHANGED <<book, chap, out, events, cnt, matched>>
    /\ UNCHANGED mainvars

\* Event::Html(html) if html.starts_with(COMMENT_START)
WholeCase ==
    /\ pc = "loop"
    /\ LET r == MpNext(mp)
           e == r.item
       IN /\ IsWholeStart(e)
          /\ mp' = r.mp
          /\ matched' = matched \cup {CurPos(r.mp)}
          /\ Drop
          /\ IF IsCommentEnd(e.text)
             THEN UNCHANGED <<pc, current_event, cnt, found>>
             ELSE /\ current_event' = e
                  /\ cnt' = 0
                  /\ found' = FALSE
                  /\ pc' = "whole"
    /\ UNCHANGED <<book, chap, out, events, count>>
    /\ UNCHANGED mainvars

\* the loop peeking Html events; its `continue` after a closer continues
\* this loop, with cnt and found kept
WholeLookahead ==
    /\ pc = "whole"
    /\ LET p == MpPeek(mp)
           h == p.item
       IN IF h.tag = "Html"
          THEN /\ cnt' = cnt + 1
               /\ Drop
               /\ UNCHANGED <<current_event, pc>>
               /\ IF IsCommentEnd(h.text)
                  THEN /\ found' = TRUE
                       /\ mp' = SkipN(p.mp, WholeSkip(cnt + 1))
                  ELSE /\ mp' = p.mp
                       /\ UNCHANGED found
          ELSE /\ Restore(found)
               /\ mp' = p.mp
               /\ current_event' = None
               /\ pc' = "loop"
               /\ UNCHANGED <<cnt, found>>
    /\ UNCHANGED <<book, chap, out, events, count, matched>>
    /\ UNCHANGED mainvars

\* _ => filtered.push(current_event)
PassThrough ==
    /\ pc = "loop"
    /\ LET r == MpNext(mp)
           e == r.item
       IN /\ e # None
          /\ ~IsSplitStart(e)
          /\ ~IsWholeStart(e)
          /\ mp' = r.mp
          /\ Keep(e, r.mp)
    /\ UNCHANGED <<book, chap, out, events, current_event, count, cnt, found,
                   pc, matched>>
    /\ UNCHANGED mainvars

----------------------------------------------------------------------------
(* NoCommentPreprocessor::run *)

CallKeepState(evs) ==
    /\ events' = evs
    /\ mp' = [mp EXCEPT !.iter = evs]
    /\ UNCHANGED <<filtered, origin, matched>>

\* remove_comment(content_events): fresh filtered and multipeek
Call(evs) ==
    /\ events' = evs
    /\ mp' = MultiPeek(evs)
    /\ filtered' = <<>>
    /\ origin' = <<>>
    /\ matched' = {}

StartChapter ==
    /\ pc = "run"
    /\ chap <= Len(book)
    /\ Call(book[chap])
    /\ pc' = "loop"
    /\ UNCHANGED <<book, chap, out, current_event, count, cnt, found>>
    /\ UNCHANGED mainvars

FinishChapter ==
    /\ pc = "ret"
    /\ out' = Append(out, filtered)
    /\ chap' = chap + 1
    /\ pc' = "run"
    /\ UNCHANGED <<book, events, mp, filtered, current_event, count, cnt,
                   found, origin, matched>>
    /\ UNCHANGED mainvars

RunReturn ==
    /\ pc = "run"
    /\ chap > Len(book)
    /\ pc' = "done"
    /\ UNCHANGED <<book, chap, out, events, mp, filtered, current_event,
                   count, cnt, found, origin, matched>>
    /\ UNCHANGED mainvars

----------------------------------------------------------------------------
(* Specifications *)

InitWith(b) ==
    /\ book = b
    /\ chap = 1
    /\ out = <<>>
    /\ events = <<>>
    /\ mp = MultiPeek(<<>>)
    /\ filtered = <<>>
    /\ current_event = None
    /\ count = 0
    /\ cnt = 0
    /\ found = FALSE
    /\ pc = "run"
    /\ origin = <<>>
    /\ matched = {}
    /\ args = [mode |-> "library", renderer |-> ""]
    /\ mpc = "library"
    /\ ctx = [mdbook_version |-> <<>>]
    /\ err = "none"
    /\ exit_code = -1
    /\ stdout = <<>>
    /\ stderr = <<>>

\* one call of remove_comment on any event sequence of at most MaxLen events
Init == \E s \in SeqsUpTo(Events, MaxLen) : InitWith(<<s>>)

Next ==
    \/ StartChapter
    \/ LoopEnd
    \/ SplitCase
    \/ SplitLookahead
    \/ WholeCase
    \/ WholeLookahead
    \/ PassThrough
    \/ FinishChapter
    \/ RunReturn

Spec == Init /\ [][Next]_vars

\* the loops of remove_comment and run keep running until they exit
FairSpec == Spec /\ WF_vars(Next)

\* remove_comment applied again to its own output
Rescrub ==
    /\ pc = "done"
    /\ Len(book) = 1
    /\ book' = Append(book, out[1])
    /\ pc' = "run"
    /\ UNCHANGED <<chap, out, events, mp, filtered, current_event, count, cnt,
                   found, origin, matched>>
    /\ UNCHANGED mainvars

NextTwice == Next \/ Rescrub

SpecTwice == Init /\ [][NextTwice]_vars

BookEvents ==
    { Text(<<"<">>), Text(<<"!", "-", "-">>), Text(<<"-", "-", ">", " ">>),
      Html(<<"<", "!", "-", "-">>), Html(<<"-", "-", ">">>), SoftBreak }

\* a book whose first and last chapters have the same content, with any
\* chapter in between
InitBook ==
    \E A \in SeqsUpTo(BookEvents, MaxChapLen), B \in SeqsUpTo(BookEvents, MaxChapLen) :
        InitWith(<<B, A, B>>)

SpecBook == InitBook /\ [][Next]_vars

----------------------------------------------------------------------------
(* main.rs: the command line program *)

\* a version string is its dot-separated components; semver wants three
HostVersions == { <<0, 4, 21>>, <<0, 4, 30>>, <<0, 4, 2>>, <<0, 3, 7>>,
                  <<1, 0, 0>>, <<0, 4>> }

\* the mdbook version the plugin is built against
MDBOOK_VERSION == <<0, 4, 21>>

\* Version::parse(..) is Ok
VersionParses(v) == Len(v) = 3

\* VersionReq::parse(req).matches(v): a bare version is a caret requirement
ReqMatches(req, v) ==
    IF req[1] > 0
    THEN v[1] = req[1] /\ (v[2] > req[2] \/ (v[2] = req[2] /\ v[3] >= req[3]))
    ELSE IF req[2] > 0
    THEN v[1] = 0 /\ v[2] = req[2] /\ v[3] >= req[3]
    ELSE v = req

Renderers == {"html", "markdown", "supported", "not-supported"}

SupportsRendererAlways(renderer) == TRUE

\* NoCommentPreprocessor::supports_renderer
SupportsRenderer(renderer) == renderer # "not-supported"

libvars == <<book, chap, out, events, mp, filtered, current_event, count, cnt,
             found, origin, matched>>

\* main: dispatch on the subcommand
Main ==
    /\ mpc = "main"
    /\ mpc' = IF args.mode = "supports" THEN "supports" ELSE "parse_input"
    /\ UNCHANGED <<libvars, pc, args, ctx, err, exit_code, stdout, stderr>>

\* handle_supports: process::exit(0) or process::exit(1)
HandleSupports ==
    /\ mpc = "supports"
    /\ exit_code' = IF SupportsRenderer(args.renderer) THEN 0 ELSE 1
    /\ mpc' = "exited"
    /\ UNCHANGED <<libvars, pc, args, ctx, err, stdout, stderr>>

\* CmdPreprocessor::parse_input(io::stdin())?
ParseInput ==
    /\ mpc = "parse_input"
    /\ \E ok \in BOOLEAN, v \in HostVersions :
           IF ok
           THEN /\ ctx' = [mdbook_version |-> v]
                /\ mpc' = "version"
                /\ UNCHANGED err
           ELSE /\ err' = "parse_input"
                /\ mpc' = "err"
                /\ UNCHANGED ctx
    /\ UNCHANGED <<libvars, pc, args, exit_code, stdout, stderr>>

\* Version::parse(&ctx.mdbook_version)?
ParseVersion ==
    /\ mpc = "version"
    /\ IF VersionParses(ctx.mdbook_version)
       THEN mpc' = "check" /\ UNCHANGED err
       ELSE mpc' = "err" /\ err' = "version"
    /\ UNCHANGED <<libvars, pc, args, ctx, exit_code, stdout, stderr>>

CheckVersionFatal ==
    /\ mpc = "check"
    /\ IF ReqMatches(MDBOOK_VERSION, ctx.mdbook_version)
       THEN /\ mpc' = "run"
            /\ pc' = "run"
            /\ UNCHANGED <<err, stderr>>
       ELSE /\ stderr' = Append(stderr, "warning")
            /\ err' = "mismatch"
            /\ mpc' = "err"
            /\ UNCHANGED pc
    /\ UNCHANGED <<libvars, args, ctx, exit_code, stdout>>

\* VersionReq::parse(MDBOOK_VERSION)? (a valid version, always Ok), the
\* warning on a mismatch, and the call NoCommentPreprocessor.run(&ctx, book)
CheckVersion ==
    /\ mpc = "check"
    /\ stderr' = IF ReqMatches(MDBOOK_VERSION, ctx.mdbook_version)
                 THEN stderr
                 ELSE Append(stderr, "warning")
    /\ mpc' = "run"
    /\ pc' = "run"
    /\ UNCHANGED <<libvars, args, ctx, err, exit_code, stdout>>

\* cmark(events, &mut buf).unwrap(): an Err of the serializer panics
CmarkPanic ==
    /\ mpc = "run"
    /\ pc = "ret"
    /\ err' = "panic"
    /\ stderr' = Append(stderr, "panic")
    /\ exit_code' = 101
    /\ mpc' = "exited"
    /\ UNCHANGED <<libvars, pc, args, ctx, stdout>>

\* run returned Ok(book); serde_json::to_string(&processed_book)?
Serialize ==
    /\ mpc = "run"
    /\ pc = "done"
    /\ \E ok \in BOOLEAN :
           IF ok
           THEN mpc' = "print" /\ UNCHANGED err
           ELSE mpc' = "err" /\ err' = "serialize"
    /\ UNCHANGED <<libvars, pc, args, ctx, exit_code, stdout, stderr>>

\* println!("{}", out); Ok(()), and main returns
PrintBook ==
    /\ mpc = "print"
    /\ stdout' = Append(stdout, out)
    /\ exit_code' = 0
    /\ mpc' = "exited"
    /\ UNCHANGED <<libvars, pc, args, ctx, err, stderr>>

MainErrExitZero ==
    /\ mpc = "err"
    /\ stderr' = Append(stderr, err)
    /\ exit_code' = 0
    /\ mpc' = "exited"
    /\ UNCHANGED <<libvars, pc, args, ctx, err, stdout>>

\* if let Err(e) = handle_preprocessing() { eprintln!; process::exit(1) }
MainErr ==
    /\ mpc = "err"
    /\ stderr' = Append(stderr, err)
    /\ exit_code' = 1
    /\ mpc' = "exited"
    /\ UNCHANGED <<libvars, pc, args, ctx, err, stdout>>

\* the process started with any command line and any one-chapter book on
\* standard input
InitMain ==
    \E m \in {"supports", "preprocess"}, r \in Renderers,
       s \in SeqsUpTo(BookEvents, MaxChapLen) :
        /\ book = <<s>>
        /\ chap = 1
        /\ out = <<>>
        /\ events = <<>>
        /\ mp = MultiPeek(<<>>)
        /\ filtered = <<>>
        /\ current_event = None
        /\ count = 0
        /\ cnt = 0
        /\ found = FALSE
        /\ pc = "idle"
        /\ origin = <<>>
        /\ matched = {}
        /\ args = [mode |-> m, renderer |-> r]
        /\ mpc = "main"
        /\ ctx = [mdbook_version |-> <<>>]
        /\ err = "none"
        /\ exit_code = -1
        /\ stdout = <<>>
        /\ stderr = <<>>

NextMain ==
    \/ Main
    \/ HandleSupports
    \/ ParseInput
    \/ ParseVersion
    \/ CheckVersion
    \/ CmarkPanic
    \/ Serialize
    \/ PrintBook
    \/ MainErr
    \/ Next

SpecMain == InitMain /\ [][NextMain]_vars

----------------------------------------------------------------------------
(* Vocabulary of the properties, stated on the input and output sequences *)

\* the event has content whose trailing-whitespace-trimmed form ends in -->
Closes(e) ==
    /\ e.tag \in {"Text", "Html"}
    /\ LET t == e.text
           n == CHOOSE k \in 0..Len(t) :
                    /\ \A j \in (k + 1)..Len(t) : t[j] \in {" ", "\n"}
                    /\ (k > 0 => t[k] \notin {" ", "\n"})
       IN n >= 3 /\ t[n - 2] = "-" /\ t[n - 1] = "-" /\ t[n] = ">"

\* the text <!-- occurs in the event's payload
HasStartText(e) ==
    \E i \in 1..(Len(e.text) - 3) :
        /\ e.text[i] = "<" /\ e.text[i + 1] = "!"
        /\ e.text[i + 2] = "-" /\ e.text[i + 3] = "-"

WholeOpenerAt(evs, a) ==
    /\ evs[a].tag = "Html" /\ Len(evs[a].text) >= 4
    /\ SubSeq(evs[a].text, 1, 4) = <<"<", "!", "-", "-">>

SplitOpenerAt(evs, a) ==
    /\ a < Len(evs)
    /\ evs[a] = Text(<<"<">>)
    /\ evs[a + 1].tag = "Text" /\ Len(evs[a + 1].text) >= 3
    /\ SubSeq(evs[a + 1].text, 1, 3) = <<"!", "-", "-">>

TriggerAt(evs, a) == WholeOpenerAt(evs, a) \/ SplitOpenerAt(evs, a)

\* input positions of the events in filtered
KeptPos == {origin[i] : i \in 1..Len(origin)}

\* evs without the positions in D
Without(evs, D) ==
    LET F[i \in 0..Len(evs)] ==
            IF i = 0 THEN <<>>
            ELSE IF i \in D THEN F[i - 1] ELSE Append(F[i - 1], evs[i])
    IN F[Len(evs)]

\* remove_comment has returned
Returned == pc = "ret"

----------------------------------------------------------------------------
(* C1: the output of remove_comment is an order-preserving subsequence of  *)
(* its input: every output event is the input event of a position, the     *)
(* positions strictly increase (nothing emitted twice, nothing invented,   *)
(* order kept), and the output is no longer than the input; the sequence   *)
(* handed back to run is that output.                                      *)
C1_OutputIsSubsequence ==
    /\ Len(origin) = Len(filtered)
    /\ Len(filtered) <= Len(events)
    /\ \A i \in 1..Len(filtered) :
           /\ origin[i] \in 1..Len(events)
           /\ filtered[i] = events[origin[i]]
    /\ \A i \in 1..(Len(filtered) - 1) : origin[i] < origin[i + 1]
    /\ (pc = "done" => out = <<filtered>>)

C1_Witness ==
    /\ pc = "done"
    /\ Len(out[1]) >= 2
    /\ Len(out[1]) < Len(book[1])

----------------------------------------------------------------------------
(* C3, as claimed: when no event's payload contains the text <!--, the     *)
(* output equals the input.                                                *)
C3_NoStartTextIdentity ==
    (Returned /\ \A i \in 1..Len(events) : ~HasStartText(events[i]))
        => filtered = events

(* C3, amended: when no event's payload contains the text <!-- and no Text *)
(* "<" is immediately followed by a Text starting with !--, the output     *)
(* equals the input (the empty input included).                            *)
C3_NoStartNoSplitIdentity ==
    (/\ Returned
     /\ \A i \in 1..Len(events) : ~HasStartText(events[i])
     /\ \A i \in 1..Len(events) : ~SplitOpenerAt(events, i))
        => filtered = events

C3_Witness ==
    /\ Returned
    /\ Len(events) >= 3
    /\ \A i \in 1..Len(events) : ~HasStartText(events[i])
    /\ \A i \in 1..Len(events) : ~SplitOpenerAt(events, i)
    /\ \E i \in 1..Len(events) : events[i] = Text(<<"<">>)
    /\ \E i \in 1..Len(events) : Closes(events[i])
    /\ filtered = events

----------------------------------------------------------------------------
(* C4: an event that is neither Text nor Html is missing from the output   *)
(* only if it lies strictly between the opener and the closing event of a  *)
(* closed comment span: a split opener before it and a closing Text event  *)
(* after it (a whole-token span holds Html events only).                   *)
C4_OtherEventsKept ==
    Returned =>
        \A p \in 1..Len(events) :
            (events[p].tag \notin {"Text", "Html"} /\ p \notin KeptPos)
                => \E a \in 1..(p - 2), b \in (p + 1)..Len(events) :
                       /\ SplitOpenerAt(events, a)
                       /\ events[b].tag = "Text" /\ Closes(events[b])

----------------------------------------------------------------------------
(* C5: when a trigger arm is taken at position a and no event from a to    *)
(* the end of the input closes a comment, the output ends with the input   *)
(* events from a on, all of them, unchanged and in order.                  *)
C5_UnclosedKeepsAll ==
    Returned =>
        \A a \in matched :
            (\A q \in a..Len(events) : ~Closes(events[q]))
                => /\ Len(filtered) >= Len(events) - a + 1
                   /\ SubSeq(filtered, Len(filtered) - (Len(events) - a),
                             Len(filtered))
                          = SubSeq(events, a, Len(events))

C5_Witness ==
    /\ Returned
    /\ \E a \in matched, b \in matched :
           /\ WholeOpenerAt(events, a) /\ SplitOpenerAt(events, b)
           /\ \A q \in a..Len(events) : ~Closes(events[q])
           /\ \A q \in b..Len(events) : ~Closes(events[q])
           /\ {a, b, b + 1} \subseteq KeptPos

----------------------------------------------------------------------------
(* C6: when the next event examined is an Html event starting with <!--    *)
(* whose trimmed content ends with -->, the step discards that one event:  *)
(* nothing is pushed, exactly that event leaves the stream, and the outer  *)
(* loop resumes at the event after it; and in an input whose only trigger  *)
(* is such an event, the output is the input without that event.           *)
C6_SelfClosedWhole ==
    /\ [][ (/\ pc = "loop"
            /\ Remaining(mp) # <<>>
            /\ WholeOpenerAt(Remaining(mp), 1)
            /\ Closes(Head(Remaining(mp))))
           => (/\ filtered' = filtered
               /\ Remaining(mp') = Tail(Remaining(mp))
               /\ pc' = "loop") ]_vars
    /\ [](Returned =>
            \A a \in 1..Len(events) :
                (/\ WholeOpenerAt(events, a)
                 /\ Closes(events[a])
                 /\ \A b \in 1..Len(events) : TriggerAt(events, b) => b = a)
                    => filtered = Without(events, {a}))

C6_Witness ==
    /\ Returned
    /\ Len(events) >= 3
    /\ \E a \in 2..(Len(events) - 1) :
           /\ WholeOpenerAt(events, a) /\ Closes(events[a])
           /\ \E i \in 5..(Len(events[a].text) - 4) :
                  events[a].text[i] = "-" /\ events[a].text[i + 1] = "-"
           /\ \A b \in 1..Len(events) : TriggerAt(events, b) => b = a
           /\ events[a + 1].tag = "Html" /\ Closes(events[a + 1])
           /\ filtered = Without(events, {a})

----------------------------------------------------------------------------
(* C7: when the next event examined is Text "<", the one after it is a     *)
(* Text starting with !-- and that second event's trimmed content ends     *)
(* with -->, the step discards exactly these two events: nothing is        *)
(* pushed, exactly the two leave the stream, and the outer loop resumes at *)
(* the event after them.                                                   *)
C7_SplitClosedInSecond ==
    [][ (/\ pc = "loop"
         /\ SplitOpenerAt(Remaining(mp), 1)
         /\ Closes(Remaining(mp)[2]))
        => (/\ filtered' = filtered
            /\ Remaining(mp') = SubSeq(Remaining(mp), 3, Len(Remaining(mp)))
            /\ pc' = "loop") ]_vars

C7_Witness ==
    /\ Returned
    /\ \E a \in matched :
           /\ a > 1 /\ a + 2 <= Len(events)
           /\ SplitOpenerAt(events, a) /\ Closes(events[a + 1])
           /\ KeptPos = (1..Len(events)) \ {a, a + 1}

----------------------------------------------------------------------------
(* C8: when the split trigger is taken at position a, the Text after it is *)
(* no closer, and b is the first later Text event whose trimmed content    *)
(* ends with -->, then exactly the events a..b are discarded for this      *)
(* span, whatever their types: none of a..b is in the output, and the      *)
(* event right after b is examined by the outer loop on its own (kept, or  *)
(* taken as a new trigger).                                                *)
C8_SplitClosedByLookahead ==
    Returned =>
        \A a \in matched, b \in 1..Len(events) :
            (/\ SplitOpenerAt(events, a)
             /\ ~Closes(events[a + 1])
             /\ b > a + 1
             /\ events[b].tag = "Text" /\ Closes(events[b])
             /\ \A q \in (a + 2)..(b - 1) :
                    ~(events[q].tag = "Text" /\ Closes(events[q])))
                => /\ (a..b) \cap KeptPos = {}
                   /\ (a..b) \cap matched = {a}
                   /\ (b < Len(events) => (b + 1) \in KeptPos \cup matched)

C8_Witness ==
    /\ Returned
    /\ \E a \in matched :
           /\ a + 3 <= Len(events)
           /\ SplitOpenerAt(events, a) /\ ~Closes(events[a + 1])
           /\ events[a + 2].tag \notin {"Text", "Html"}
           /\ events[a + 3].tag = "Text" /\ Closes(events[a + 3])
           /\ (a..(a + 3)) \cap KeptPos = {}

----------------------------------------------------------------------------
(* C9: every call terminates and hands back a sequence: run reaches its    *)
(* end with one output per chapter.                                        *)
C9_Terminates == <>(pc = "done" /\ Len(out) = Len(book))

\* the whole-token lookahead went on past the closer it found, and ended
C9_Witness ==
    /\ pc = "done"
    /\ Len(out) = 1
    /\ Len(events) >= 3
    /\ WholeOpenerAt(events, 1) /\ ~Closes(events[1])
    /\ events[2].tag = "Html" /\ Closes(events[2])
    /\ events[3].tag = "Html"
    /\ found /\ cnt >= 2 /\ count = 0

----------------------------------------------------------------------------
(* C2, as claimed: scrubbing the output of remove_comment again gives the  *)
(* same sequence.                                                          *)
C2_Idempotent ==
    (pc = "done" /\ Len(out) = 2) => out[2] = out[1]

(* C2, amended: scrubbing the output again gives the same sequence         *)
(* whenever the output holds no trigger that still has an event with       *)
(* trimmed content ending in --> after its first event.                    *)
C2_IdempotentWithoutClosableTrigger ==
    (/\ pc = "done"
     /\ Len(out) = 2
     /\ \A a \in 1..Len(out[1]) :
            TriggerAt(out[1], a)
                => \A q \in (a + 1)..Len(out[1]) : ~Closes(out[1][q]))
        => out[2] = out[1]

C2_Witness ==
    /\ pc = "done"
    /\ Len(out) = 2
    /\ Len(out[1]) < Len(book[1])
    /\ \E a \in 1..Len(out[1]) : TriggerAt(out[1], a)
    /\ \E q \in 1..Len(out[1]) : Closes(out[1][q])
    /\ \A a \in 1..Len(out[1]) :
           TriggerAt(out[1], a)
               => \A q \in (a + 1)..Len(out[1]) : ~Closes(out[1][q])
    /\ out[2] = out[1]

----------------------------------------------------------------------------
(* C10: the output for a chapter depends only on the chapter's own events: *)
(* a chapter scrubbed after any other chapter gets the output it gets when *)
(* it is scrubbed first, also when the chapter before it ended in an       *)
(* unclosed candidate span.                                                *)
C10_NoResidualState ==
    /\ \A i \in 1..Len(out), j \in 1..Len(out) :
           book[i] = book[j] => out[i] = out[j]
    /\ (pc = "done" => Len(out) = Len(book))

C10_Witness ==
    /\ pc = "done"
    /\ Len(book[2]) >= 1
    /\ WholeOpenerAt(book[2], Len(book[2]))
    /\ out[2] = book[2]
    /\ Len(book[3]) = 2
    /\ book[3][1] = Html(<<"-", "-", ">">>)
    /\ out[3] = book[3]

----------------------------------------------------------------------------
(* C12: when the whole-token trigger is taken at position a, the opener is *)
(* no closer, and b is the first later position whose Html event has       *)
(* trimmed content ending in -->, all events between being Html, then      *)
(* exactly the events a..b are discarded for this span: none of them is in *)
(* the output, and the event right after b is examined by the outer loop   *)
(* on its own (kept, or taken as a new trigger).                           *)
C12_WholeClosedByLookahead ==
    Returned =>
        \A a \in matched, b \in 1..Len(events) :
            (/\ WholeOpenerAt(events, a)
             /\ ~Closes(events[a])
             /\ b > a
             /\ \A q \in (a + 1)..b : events[q].tag = "Html"
             /\ \A q \in (a + 1)..(b - 1) : ~Closes(events[q])
             /\ Closes(events[b]))
                => /\ (a..b) \cap KeptPos = {}
                   /\ (b < Len(events) => (b + 1) \in KeptPos \cup matched)

----------------------------------------------------------------------------
(* C13: a whole-token lookahead that has found no closer consumes nothing: *)
(* every step of it leaves the stream as it is, and when it stops at a     *)
(* non-Html event or at the end of the input it pushes the opener.  When   *)
(* the trigger taken at a has only Html non-closers up to the boundary c,  *)
(* the opener and every peeked event are in the output, in order, and the  *)
(* boundary event is examined by the outer loop (kept, or taken as a       *)
(* trigger).                                                               *)
C13_WholeNotFound ==
    /\ [][ (pc = "whole" /\ ~found')
           => (/\ Remaining(mp') = Remaining(mp)
               /\ (pc' = "loop"
                     => /\ filtered' = Append(filtered, current_event)
                        /\ origin' = Append(origin, CurPos(mp)))
               /\ (pc' # "loop" => filtered' = filtered)) ]_vars
    /\ [](Returned =>
            \A a \in matched, c \in 1..(Len(events) + 1) :
                (/\ WholeOpenerAt(events, a)
                 /\ ~Closes(events[a])
                 /\ c > a
                 /\ \A q \in (a + 1)..(c - 1) :
                        events[q].tag = "Html" /\ ~Closes(events[q])
                 /\ (c <= Len(events) => events[c].tag # "Html"))
                    => /\ (a..(c - 1)) \subseteq KeptPos
                       /\ \A i \in 1..(Len(origin) - 1) : origin[i] < origin[i + 1]
                       /\ (c <= Len(events) => c \in KeptPos \cup matched))

C13_Witness ==
    /\ Returned
    /\ \E a \in matched :
           /\ a + 3 <= Len(events)
           /\ WholeOpenerAt(events, a) /\ ~Closes(events[a])
           /\ events[a + 1].tag = "Html" /\ ~Closes(events[a + 1])
           /\ events[a + 2].tag # "Html"
           /\ events[a + 3].tag = "Html" /\ Closes(events[a + 3])
           /\ {a, a + 1} \subseteq KeptPos
           /\ (a + 2) \in KeptPos \cup matched

----------------------------------------------------------------------------
(* C14: when the split trigger is taken at position a and no Text event    *)
(* after a has trimmed content ending in -->, the step that ends the       *)
(* lookahead pushes the "<" and consumes nothing; "<" and the Text after   *)
(* it are both in the output, the event after them is examined by the      *)
(* outer loop, and a later Html opener that the outer loop examines is     *)
(* still removed together with an Html closer right after it.              *)
C14_SplitNotClosed ==
    /\ [][ (pc = "split" /\ pc' = "loop" /\ ~found')
           => (/\ filtered' = Append(filtered, Text(<<"<">>))
               /\ Remaining(mp') = Remaining(mp)) ]_vars
    /\ [](Returned =>
            \A a \in matched :
                (/\ SplitOpenerAt(events, a)
                 /\ \A q \in (a + 1)..Len(events) :
                        ~(events[q].tag = "Text" /\ Closes(events[q])))
                    => /\ {a, a + 1} \subseteq KeptPos
                       /\ (a + 2 <= Len(events)
                             => (a + 2) \in KeptPos \cup matched)
                       /\ \A q \in (a + 2)..(Len(events) - 1) :
                              (/\ q \in KeptPos \cup matched
                               /\ WholeOpenerAt(events, q)
                               /\ ~Closes(events[q])
                               /\ events[q + 1].tag = "Html"
                               /\ Closes(events[q + 1]))
                                  => {q, q + 1} \cap KeptPos = {})

C14_Witness ==
    /\ Returned
    /\ \E a \in matched :
           /\ a + 3 = Len(events)
           /\ SplitOpenerAt(events, a)
           /\ ~Closes(events[a + 1])
           /\ WholeOpenerAt(events, a + 2) /\ ~Closes(events[a + 2])
           /\ events[a + 3].tag = "Html" /\ Closes(events[a + 3])
           /\ filtered = SubSeq(events, 1, a + 1)

----------------------------------------------------------------------------
(* C15: an input with no trigger (no Html event starting with <!--, no     *)
(* Text "<" immediately followed by a Text starting with !--) is returned  *)
(* as it is; a Text "<" at the end, or followed by any other event, is     *)
(* kept.                                                                   *)
C15_NoTriggerIdentity ==
    (Returned /\ \A i \in 1..Len(events) : ~TriggerAt(events, i))
        => filtered = events

C15_Witness ==
    /\ Returned
    /\ Len(events) >= 4
    /\ \A i \in 1..Len(events) : ~TriggerAt(events, i)
    /\ events[Len(events)] = Text(<<"<">>)
    /\ \E i \in 1..(Len(events) - 1) :
           events[i] = Text(<<"<">>) /\ events[i + 1].tag # "Text"
    /\ \E i \in 1..Len(events) : events[i].tag = "Html" /\ Closes(events[i])
    /\ filtered = events

----------------------------------------------------------------------------
(* C18: the output never holds an Html event that starts with <!-- and has *)
(* trimmed content ending in -->.                                          *)
C18_NoSelfClosedInOutput ==
    \A i \in 1..Len(filtered) :
        ~(WholeOpenerAt(filtered, i) /\ Closes(filtered[i]))

\* one self-closed comment is met as the current event, another is
\* swallowed as the closing event of a whole-token span
C18_Witness ==
    /\ Returned
    /\ Len(filtered) >= 1
    /\ \E a \in matched, b \in matched :
           /\ WholeOpenerAt(events, a) /\ Closes(events[a])
           /\ WholeOpenerAt(events, b) /\ ~Closes(events[b])
           /\ b < Len(events)
           /\ WholeOpenerAt(events, b + 1) /\ Closes(events[b + 1])
           /\ {a, b, b + 1} \cap KeptPos = {}

----------------------------------------------------------------------------
(* C11: in supports mode the process exits with status 1 for the renderer  *)
(* not-supported and with status 0 for every other renderer, and it never  *)
(* enters preprocessing: nothing is parsed, run, or written.               *)
C11_SupportsExit ==
    args.mode = "supports" =>
        /\ mpc \in {"main", "supports", "exited"}
        /\ pc = "idle"
        /\ stdout = <<>>
        /\ (mpc = "exited" =>
               exit_code = IF args.renderer = "not-supported" THEN 1 ELSE 0)

C11_Witness ==
    /\ args.mode = "supports"
    /\ args.renderer = "not-supported"
    /\ mpc = "exited"
    /\ exit_code = 1

----------------------------------------------------------------------------
(* C16: in preprocessing mode a failed step (unreadable host input, an     *)
(* unparsable version, a failure inside run, a serialization failure) ends *)
(* the process with a message on standard error, a non-zero status and     *)
(* nothing on standard output; the processed book is on standard output    *)
(* only once every step has succeeded.                                     *)
C16_FailureNoOutput ==
    args.mode = "preprocess" =>
        /\ (stdout # <<>> =>
               /\ err = "none"
               /\ pc = "done"
               /\ mpc = "exited"
               /\ stdout = <<out>>)
        /\ ((mpc = "exited" /\ err # "none") =>
               /\ exit_code > 0
               /\ stderr # <<>>
               /\ stderr[Len(stderr)] = err
               /\ stdout = <<>>)
        /\ ((mpc = "exited" /\ err = "none") =>
               exit_code = 0 /\ stdout = <<out>>)

C16_Witness ==
    /\ args.mode = "preprocess"
    /\ mpc = "exited"
    /\ err = "serialize"
    /\ pc = "done"
    /\ Len(out[1]) < Len(book[1])
    /\ exit_code = 1
    /\ stdout = <<>>

----------------------------------------------------------------------------
(* C17, as claimed: when the host's version does not match the version the *)
(* plugin was built against, the process ends with a non-zero status and   *)
(* nothing on standard output.                                             *)
VersionMismatch ==
    /\ VersionParses(ctx.mdbook_version)
    /\ ~ReqMatches(MDBOOK_VERSION, ctx.mdbook_version)

C17_MismatchFails ==
    (args.mode = "preprocess" /\ mpc = "exited" /\ VersionMismatch)
        => (exit_code > 0 /\ stdout = <<>>)

(* C17, amended: a version mismatch is surfaced as a warning on standard   *)
(* error only; processing goes on, and unless the run or the serialization *)
(* fails afterwards the processed book is written to standard output and   *)
(* the process exits with status 0.                                        *)
C17_MismatchWarnsOnly ==
    (args.mode = "preprocess" /\ mpc = "exited" /\ VersionMismatch)
        => /\ stderr # <<>>
           /\ stderr[1] = "warning"
           /\ (err \notin {"panic", "serialize"} =>
                  exit_code = 0 /\ stdout = <<out>>)

C17_Witness ==
    /\ args.mode = "preprocess"
    /\ mpc = "exited"
    /\ VersionMismatch
    /\ stderr = <<"warning">>
    /\ exit_code = 0
    /\ stdout = <<out>>
    /\ Len(out[1]) < Len(book[1])

====
